---- MODULE Spec2Model ----
(***************************************************************************)
(* A model of the oxasl correction and quantification stages:              *)
(*   oxasl/basil/quantify.py  run, _default_pvcorr, _surf_pvcorr           *)
(*   oxasl/corrections.py     get_*_correction, apply_corrections,         *)
(*                            correct_img, apply_sensitivity_correction    *)
(*                                                                         *)
(* The workspace is one record, wsp.  An attribute that was never set      *)
(* reads as None; a sub-workspace attribute a.b is the field a_b, and the  *)
(* field a itself says whether the sub-workspace a has been created.       *)
(* calls holds the calls of external steps (FSL tools, fit.run, reg.run,    *)
(* mask.run) the last operation made, in the order it made them.  outcome  *)
(* is how the last operation ended: what it was, whether it returned or    *)
(* raised, and what it returned.                                           *)
(***************************************************************************)
EXTENDS Integers, Sequences, FiniteSets, TLC

VARIABLES wsp, calls, outcome

vars == <<wsp, calls, outcome>>

None == "None"

\* None where the attribute, when set, holds an image
NoImage == [data |-> <<>>, header |-> "None"]

\* None where the attribute, when set, holds a matrix or a list
NoMat == <<>>

\* None where the attribute, when set, holds a number
NoNumber == 0 - 1

NoOutcome == [op |-> "none", status |-> "none", ret |-> <<>>]

Returned(op, ret) == [op |-> op, status |-> "returned", ret |-> ret]

Raised(op, what) == [op |-> op, status |-> "raised", ret |-> <<what>>]

(***************************************************************************)
(* Workspace.ifnone(attr, default)                                         *)
(***************************************************************************)
ifnone(v, default) == IF v = None THEN default ELSE v

(***************************************************************************)
(* Bounds                                                                  *)
(***************************************************************************)
\* voxels of an image of the sensitivity model
NVox == 2
\* voxel values are 1..MaxVal
MaxVal == 2
\* most images handed to apply_sensitivity_correction in one call
MaxImgs == 2
\* most volumes of the ASL series
MaxVols == 6
\* most volumes of the ASL series where all four correction stages interleave
CorrVols == 1
\* most failures of external steps in one behaviour
MaxFail == 1
\* no operation makes more than MaxExt external calls
MaxExt == 9

\* most voxels along one axis of the ASL data, for get_cblip_correction on its own
MaxDim == 3

\* the echo spacings 1..MaxEs, for get_cblip_correction on its own
MaxEs == 2

(***************************************************************************)
(* The workspace before any stage has run.                                 *)
(***************************************************************************)
EmptyWsp ==
    [ \* quantify.py options and state
      quantify_struc |-> None, quantify_std |-> None, quantify_custom |-> None,
      pvcorr |-> FALSE, surf_pvcorr |-> FALSE, pvwm |-> None, pvgm |-> None,
      oxasl_surfpvc |-> None,
      quantify_wsps |-> <<>>, user_pv_flag |-> None,
      rois_mask_src |-> None, rois_mask |-> None, rois_mask_orig |-> None,
      rois_mask_pvcorr |-> None,
      structural_wm_pv_asl |-> None, structural_gm_pv_asl |-> None,
      basil_options |-> None,
      \* corrections.py: sensitivity options and state
      senscorr_off |-> FALSE, senscorr_auto |-> FALSE, isen |-> NoImage,
      calibration_calib |-> NoImage, calibration_cref |-> NoImage, bias |-> NoImage,
      sensitivity |-> NoImage,
      \* corrections.py: inputs of the correction stages
      asldata |-> NoImage, asldata_nvols |-> 0, asldata_shape |-> <<>>,
      calibration_cblip |-> NoImage,
      fmap |-> None, fmapmag |-> None, fmapmagbrain |-> None,
      pedir |-> None, echospacing |-> NoNumber, gdc_warp |-> None,
      \* the stages that called wsp.done
      done |-> {},
      \* wsp.asl.data and the calibration images in ASL space
      asl_data |-> NoImage, asl_data_pretopup |-> NoImage,
      calibration_calib_asl |-> NoImage, calibration_cref_asl |-> NoImage,
      calibration_cblip_asl |-> NoImage,
      calibration_calib_asl_pretopup |-> NoImage,
      calibration_cblip_asl_pretopup |-> NoImage,
      \* sub-workspace moco, and the registration results of motion correction
      moco |-> FALSE, moco_ref |-> NoImage, moco_input |-> NoImage,
      moco_mc_mats |-> NoMat, reg_asl2calib |-> NoMat, reg_calib2asl |-> NoMat,
      \* sub-workspace fieldmap
      fieldmap |-> FALSE, fieldmap_warp_struc |-> None, fieldmap_asl2struc |-> None,
      fieldmap_struc2asl |-> None, fieldmap_warp |-> None,
      \* sub-workspace topup
      topup |-> FALSE, topup_params |-> NoMat, topup_calib_blipped |-> NoImage,
      topup_fieldcoef |-> None, topup_movpar |-> None,
      topup_iout |-> None, topup_fout |-> None,
      \* sub-workspace distcorr
      distcorr |-> FALSE, distcorr_warp |-> NoMat, distcorr_jacobian |-> None,
      \* the temporary directory topup_input exists
      topup_input |-> FALSE,
      \* external steps that failed so far
      failed |-> 0,
      \* the lines written to wsp.log, as a set
      log |-> {} ]

(***************************************************************************)
(* quantify.py                                                             *)
(***************************************************************************)
\* One external call as it is recorded in calls.  For fit.run the mask and the
\* PV covariates are those of the workspace at the time of the call.
Call(fn, arg, w, prefit) ==
    [fn |-> fn, arg |-> arg, mask |-> w.rois_mask,
     options |-> w.basil_options, prefit |-> prefit, result |-> <<>>]

\* A run in progress: the workspace, the calls made so far, and the error raised
\* (None while none was).
Prog(w, c, e) == [w |-> w, c |-> c, err |-> e]

\* fit.run(wsp.sub(name), prefit) followed by wsp.quantify_wsps.append(name)
FitAndAppend(p, name, prefit) ==
    Prog([p.w EXCEPT !.quantify_wsps = Append(@, name)],
         Append(p.c, Call("fit.run", name, p.w, prefit)), p.err)

\* the loop body taking an option that was never given as set
QuantifySpaceByDefault(p, space) ==
    IF ifnone(p.w["quantify_" \o space], "True") = "True"
    THEN FitAndAppend(p, "basil_" \o space, TRUE)
    ELSE p

\* the loop body of run for one alternate space
QuantifySpace(p, space) ==
    IF ifnone(p.w["quantify_" \o space], "False") = "True"
    THEN FitAndAppend(p, "basil_" \o space, TRUE)
    ELSE p

\* mask.run(wsp) after the mask was saved and cleared
RegenerateMask(p) ==
    LET w1 == [p.w EXCEPT !.rois_mask_orig = p.w.rois_mask, !.rois_mask = None]
        w2 == [w1 EXCEPT !.rois_mask = "mask_regenerated"]
    IN  Prog(w2, Append(p.c, Call("mask.run", "wsp", w1, TRUE)), p.err)

\* _default_pvcorr taking the structural maps whatever the user supplied
_default_pvcorrStructuralMaps(p) ==
    LET w1 == [p.w EXCEPT !.structural_wm_pv_asl = "struc_wm_pv_in_asl",
                          !.structural_gm_pv_asl = "struc_gm_pv_in_asl"]
        w2 == [w1 EXCEPT !.basil_options = [pwm |-> w1.structural_wm_pv_asl,
                                            pgm |-> w1.structural_gm_pv_asl]]
    IN  FitAndAppend(Prog(w2, p.c, p.err), "basil_pvcorr", FALSE)

_default_pvcorr(p) ==
    LET w1 == IF p.w.user_pv_flag
              THEN [p.w EXCEPT !.log = @ \cup {"Using user-supplied PV estimates"},
                               !.structural_wm_pv_asl = p.w.pvwm,
                               !.structural_gm_pv_asl = p.w.pvgm]
              ELSE [p.w EXCEPT !.structural_wm_pv_asl = "struc_wm_pv_in_asl",
                               !.structural_gm_pv_asl = "struc_gm_pv_in_asl"]
        w2 == [w1 EXCEPT !.basil_options = [pwm |-> w1.structural_wm_pv_asl,
                                            pgm |-> w1.structural_gm_pv_asl]]
    IN  FitAndAppend(Prog(w2, p.c, p.err), "basil_pvcorr", FALSE)

_surf_pvcorr(p) ==
    IF p.w.oxasl_surfpvc = None
    THEN Prog(p.w, p.c, "RuntimeError")
    ELSE LET w0 == IF p.w.user_pv_flag
                   THEN [p.w EXCEPT !.log = @ \cup
                            {"WARNING: Performing surface based PVC ignores user-specified PV maps"}]
                   ELSE p.w
             w1 == [w0 EXCEPT !.basil_options = [pwm |-> "surf_pwm", pgm |-> "surf_pgm"]]
             c1 == Append(p.c, Call("oxasl_surfpvc.prepare_surf_pvs", "wsp", p.w, TRUE))
             w2 == [w1 EXCEPT !.rois_mask_pvcorr = w1.rois_mask]
             w3 == [w2 EXCEPT !.rois_mask = "mask_pv_above_min_pv"]
         IN  FitAndAppend(Prog(w3, c1, p.err), "basil_surf_pvcorr", FALSE)

\* Line 81 is the bare name _surf_pvcorr: the expression is evaluated and
\* dropped, the function is not called.
SurfPvcorrStatement(p) == p

\* the PVC block regenerating the mask wherever the mask came from
PvcStageAnyMaskSrc(p) ==
    LET w1 == [p.w EXCEPT !.user_pv_flag = (p.w.pvwm # None /\ p.w.pvgm # None)]
        p1 == Prog(w1, p.c, p.err)
    IN  IF w1.pvcorr \/ w1.surf_pvcorr \/ w1.user_pv_flag
        THEN LET p2 == RegenerateMask(p1)
                 p3 == IF w1.pvcorr \/ w1.user_pv_flag THEN _default_pvcorr(p2) ELSE p2
             IN  IF w1.surf_pvcorr THEN SurfPvcorrStatement(p3) ELSE p3
        ELSE p1

PvcStage(p) ==
    LET w1 == [p.w EXCEPT !.user_pv_flag = (p.w.pvwm # None /\ p.w.pvgm # None)]
        p1 == Prog(w1, p.c, p.err)
    IN  IF w1.pvcorr \/ w1.surf_pvcorr \/ w1.user_pv_flag
        THEN LET p2 == IF w1.rois_mask_src = "struc" THEN RegenerateMask(p1) ELSE p1
                 p3 == IF w1.pvcorr \/ w1.user_pv_flag THEN _default_pvcorr(p2) ELSE p2
             IN  IF w1.surf_pvcorr THEN SurfPvcorrStatement(p3) ELSE p3
        ELSE p1

RunProg(w, c) ==
    LET p1 == FitAndAppend(Prog(w, c, None), "basil", TRUE)
        p2 == Prog(p1.w, Append(p1.c, Call("reg.run", "redo", p1.w, TRUE)), None)
        p3 == QuantifySpace(p2, "struc")
        p4 == QuantifySpace(p3, "std")
        p5 == QuantifySpace(p4, "custom")
    IN  PvcStage(p5)

\* quantify.run(wsp)
run ==
    /\ outcome = NoOutcome
    /\ LET p == RunProg(wsp, <<>>)
       IN  /\ wsp' = p.w
           /\ calls' = p.c
           /\ outcome' = IF p.err = None THEN Returned("run", <<>>)
                         ELSE Raised("run", p.err)

TriState == {None, "False", "True"}

QuantifyInit ==
    /\ wsp \in { [EmptyWsp EXCEPT !.quantify_struc = qs, !.quantify_std = qt,
                                  !.quantify_custom = qc,
                                  !.pvcorr = pv, !.surf_pvcorr = sp,
                                  !.pvwm = wm, !.pvgm = gm,
                                  !.oxasl_surfpvc = plugin,
                                  !.rois_mask_src = src, !.rois_mask = "mask_" \o src] :
                   qs \in TriState, qt \in TriState, qc \in TriState,
                   pv \in BOOLEAN, sp \in BOOLEAN,
                   wm \in {None, "user_pvwm"}, gm \in {None, "user_pvgm"},
                   plugin \in {None, "module"},
                   src \in {"struc", "pwi"} }
    /\ calls = <<>>
    /\ outcome = NoOutcome

QuantifyNext == run

SpecQuantify == QuantifyInit /\ [][QuantifyNext]_vars

(***************************************************************************)
(* corrections.py: sensitivity correction                                  *)
(*                                                                         *)
(* An image is [data, header]: data is one value per voxel, header names   *)
(* the image the header was taken from.  A voxel value is a fraction       *)
(* <<n, d>> in lowest terms, so that elementwise division is computed and  *)
(* not assumed.                                                            *)
(***************************************************************************)
RECURSIVE GCD(_, _)
GCD(a, b) == IF b = 0 THEN a ELSE GCD(b, a % b)

Frac(n, d) == LET g == GCD(n, d) IN <<n \div g, d \div g>>

\* numpy: a / b on two voxel values
Div(a, b) == Frac(a[1] * b[2], a[2] * b[1])

\* numpy: np.reciprocal(a) on one voxel value
Reciprocal(a) == Frac(a[2], a[1])

Vox == 1..NVox

Image(data, header) == [data |-> data, header |-> header]

\* every image with integer voxel values 1..MaxVal
Images(header) ==
    { Image([v \in Vox |-> <<f[v], 1>>], header) : f \in [Vox -> 1..MaxVal] }

\* two images: a flat one and one that differs from voxel to voxel
FewImages(header) ==
    { Image([v \in Vox |-> <<MaxVal, 1>>], header),
      Image([v \in Vox |-> <<((v - 1) % MaxVal) + 1, 1>>], header) }

\* a.data / b.data, elementwise
DivData(a, b) == [v \in Vox |-> Div(a[v], b[v])]

\* reg.struc2asl(wsp, img): the image resampled on the ASL grid.  The external
\* resampling is stood for by a change of the voxel order.
struc2asl(img) == Image([v \in Vox |-> img.data[NVox + 1 - v]], "asl")

Log(w, line) == [w EXCEPT !.log = @ \cup {line}]

\* Lines 320-321: the branch writes its log line and stores nothing.
IsenBranch(w) == Log(w, "Sensitivity image supplied by user")

\* The calibration/reference branch with the ratio taken the other way round.
CrefBranchInverted(w) ==
    [Log(w, "Sensitivity image calculated from calibration reference image")
        EXCEPT !.sensitivity = Image(DivData(w.calibration_cref.data, w.calibration_calib.data),
                                     w.calibration_calib.header)]

\* Lines 322-324
CrefBranch(w) ==
    [Log(w, "Sensitivity image calculated from calibration reference image")
        EXCEPT !.sensitivity = Image(DivData(w.calibration_calib.data, w.calibration_cref.data),
                                     w.calibration_calib.header)]

\* Lines 325-329
BiasBranch(w) ==
    [Log(w, "Sensitivity image calculated from bias field")
        EXCEPT !.sensitivity =
            struc2asl(Image([v \in Vox |-> Reciprocal(w.bias.data[v])], w.bias.header))]

\* the body of get_sensitivity_correction: the workspace it leaves
SensitivityWsp(w) ==
    IF w.sensitivity # NoImage THEN w
    ELSE LET w1 == Log(w, "Sensitivity correction")
         IN  IF w1.senscorr_off THEN Log(w1, "Sensitivity correction disabled")
             ELSE IF w1.isen # NoImage THEN IsenBranch(w1)
             ELSE IF w1.calibration_calib # NoImage /\ w1.calibration_cref # NoImage
                  THEN CrefBranch(w1)
             ELSE IF w1.senscorr_auto /\ w1.bias # NoImage THEN BiasBranch(w1)
             ELSE Log(w1, "No source of sensitivity correction was found")

\* the external calls get_sensitivity_correction makes: struc.segment and
\* reg.struc2asl, in the bias-field branch only
SensitivityCalls(w) ==
    IF /\ w.sensitivity = NoImage /\ ~w.senscorr_off /\ w.isen = NoImage
       /\ ~(w.calibration_calib # NoImage /\ w.calibration_cref # NoImage)
       /\ w.senscorr_auto /\ w.bias # NoImage
    THEN <<Call("struc.segment", "wsp", w, TRUE), Call("reg.struc2asl", "sens", w, TRUE)>>
    ELSE <<>>

get_sensitivity_correction ==
    /\ wsp' = SensitivityWsp(wsp)
    /\ calls' = SensitivityCalls(wsp)
    /\ outcome' = Returned("get_sensitivity_correction", <<>>)

\* apply_sensitivity_correction that loses the first image
ApplyDroppingFirst(w, imgs) ==
    IF w.sensitivity # NoImage /\ ~w.senscorr_off
    THEN [i \in 1..Len(imgs) |->
            Image(DivData(imgs[i].data, w.sensitivity.data), imgs[i].header)]
    ELSE IF imgs = <<>> THEN imgs ELSE Tail(imgs)

\* apply_sensitivity_correction that does not look at senscorr_off
ApplyThoughSwitchedOff(w, imgs) ==
    IF w.sensitivity # NoImage
    THEN [i \in 1..Len(imgs) |->
            Image(DivData(imgs[i].data, w.sensitivity.data), imgs[i].header)]
    ELSE imgs

\* Lines 487-495: the tuple apply_sensitivity_correction(wsp, *imgs) returns
ApplySensitivity(w, imgs) ==
    IF w.sensitivity # NoImage /\ ~w.senscorr_off
    THEN [i \in 1..Len(imgs) |->
            Image(DivData(imgs[i].data, w.sensitivity.data), imgs[i].header)]
    ELSE imgs

\* the images handed to apply_sensitivity_correction: two that differ in data
\* and in header
ArgImages ==
    { Image([v \in Vox |-> <<MaxVal, 1>>], "asldata"),
      Image([v \in Vox |-> <<((v - 1) % MaxVal) + 1, 1>>], "pwi") }

\* the argument lists of apply_sensitivity_correction: up to MaxImgs images
ImgLists == UNION { [1..k -> ArgImages] : k \in 0..MaxImgs }

apply_sensitivity_correction ==
    \E imgs \in ImgLists :
        /\ wsp' = IF wsp.sensitivity # NoImage /\ ~wsp.senscorr_off
                  THEN Log(wsp, "Applying sensitivity correction")
                  ELSE wsp
        /\ outcome' = [op |-> "apply_sensitivity_correction", status |-> "returned",
                       ret |-> ApplySensitivity(wsp, imgs), args |-> imgs]
        /\ calls' = <<>>

SensInit ==
    /\ wsp \in { [EmptyWsp EXCEPT !.senscorr_off = off, !.senscorr_auto = auto,
                                  !.isen = isen, !.calibration_calib = calib,
                                  !.calibration_cref = cref, !.bias = bias] :
                   off \in BOOLEAN, auto \in BOOLEAN,
                   isen \in {NoImage} \cup FewImages("isen"),
                   calib \in {NoImage} \cup Images("calib"),
                   cref \in {NoImage} \cup FewImages("cref"),
                   bias \in {NoImage} \cup FewImages("struc") }
    /\ calls = <<>>
    /\ outcome = NoOutcome

SensNext == get_sensitivity_correction \/ apply_sensitivity_correction

SpecSens == SensInit /\ [][SensNext]_vars

(***************************************************************************)
(* corrections.py: the correction stages                                   *)
(*                                                                         *)
(* A rigid transform is a permutation of 1..3, that is a permutation       *)
(* matrix: the transforms form a group that does not commute, as the 4x4   *)
(* matrices do.  An image the external tools produce is the list of the    *)
(* steps that made it.                                                     *)
(***************************************************************************)
\* np.dot(a, b)
Dot(a, b) == [i \in 1..3 |-> a[b[i]]]

\* np.linalg.inv(a)
Inv(a) == [i \in 1..3 |-> CHOOSE j \in 1..3 : a[j] = i]

\* the matrices mcflirt may return for a volume: two that do not commute, one
\* of them not its own inverse
Transforms == {<<2, 1, 3>>, <<2, 3, 1>>}

\* an index one too low for series of even length
MidBelow(n) == (n - 1) \div 2

\* int(float(n)/2), an index counted from 0
Mid(n) == n \div 2

\* the transforms multiplied by calib2asl on the right
RecentreOnTheRight(mats, calib2asl) ==
    [v \in 1..Len(mats) |-> Dot(mats[v], calib2asl)]

\* Line 269: [np.dot(wsp.reg.calib2asl, mat) for mat in mats]
Recentre(mats, calib2asl) == [v \in 1..Len(mats) |-> Dot(calib2asl, mats[v])]

\* a done flag that is never read back
isdoneNever(w, stage) == FALSE

\* wsp.isdone(stage)
isdone(w, stage) == stage \in w.done

\* an external call with what it returned
CallR(fn, arg, w, result) == [Call(fn, arg, w, TRUE) EXCEPT !.result = result]

\* Lines 254-262: the sub-workspace is created, and in the calibration branch
\* the reference and the input are stored, before mcflirt is called
MocoBefore(w) ==
    LET w1 == Log([w EXCEPT !.moco = TRUE, !.moco_ref = NoImage, !.moco_input = NoImage,
                            !.moco_mc_mats = NoMat], "Motion Correction")
    IN  IF w1.calibration_calib # NoImage
        THEN [Log(w1, "Using calibration image as reference")
                EXCEPT !.moco_ref = w1.calibration_calib, !.moco_input = w1.asldata]
        ELSE Log(w1, "Using ASL data middle volume as reference")

\* Lines 264-291 with the matrices raw that mcflirt returned
MocoAfter(w, raw) ==
    LET w1 == IF w.calibration_calib # NoImage
              THEN LET asl2calib == raw[Mid(Len(raw)) + 1]
                       calib2asl == Inv(asl2calib)
                   IN  [w EXCEPT !.reg_asl2calib = asl2calib,
                                 !.reg_calib2asl = calib2asl,
                                 !.moco_mc_mats = Recentre(raw, calib2asl)]
              ELSE [w EXCEPT !.moco_mc_mats = raw]
    IN  [w1 EXCEPT !.done = @ \cup {"get_motion_correction"}]

McflirtArg(w) == IF w.calibration_calib # NoImage THEN "reffile=calib" ELSE "reffile=None"

get_motion_correction ==
    IF isdone(wsp, "get_motion_correction")
    THEN /\ outcome' = Returned("get_motion_correction", <<>>)
         /\ calls' = <<>>
         /\ UNCHANGED wsp
    ELSE \E raw \in [1..wsp.asldata_nvols -> Transforms], ok \in BOOLEAN :
            LET w1 == MocoBefore(wsp)
            IN  IF ok
                THEN /\ wsp' = MocoAfter(w1, raw)
                     /\ calls' = <<CallR("mcflirt", McflirtArg(w1), w1, raw)>>
                     /\ outcome' = Returned("get_motion_correction", <<>>)
                ELSE /\ wsp.failed < MaxFail
                     /\ wsp' = [w1 EXCEPT !.failed = @ + 1]
                     /\ calls' = <<CallR("mcflirt", McflirtArg(w1), w1, <<>>)>>
                     /\ outcome' = Raised("get_motion_correction", "RuntimeError")

RawImage(name) == Image(<<[op |-> "raw", src |-> name, premat |-> NoMat, warp |-> NoMat,
                           index |-> 0]>>, name)

MocoInit ==
    /\ wsp \in { [EmptyWsp EXCEPT !.asldata = RawImage("asldata"),
                                  !.asl_data = RawImage("asldata"),
                                  !.asldata_nvols = n,
                                  !.calibration_calib = calib] :
                   n \in 1..MaxVols, calib \in {NoImage, RawImage("calib")} }
    /\ calls = <<>>
    /\ outcome = NoOutcome

MocoNext == get_motion_correction

SpecMoco == MocoInit /\ [][MocoNext]_vars

(***************************************************************************)
(* An operation in progress, for the stages that call external tools:      *)
(* the workspace, the calls so far, the exception raised (None while none  *)
(* was) and the number of external calls that will still succeed.         *)
(***************************************************************************)
Frame(w, c, left) == [w |-> w, c |-> c, err |-> None, left |-> left]

\* Op applied to the value of f, f being evaluated once
Bind(f, Op(_)) == CHOOSE y \in { Op(x) : x \in {f} } : TRUE

ExtOf(x, fn, arg) ==
    IF x.err # None THEN x
    ELSE IF x.left = 0
    THEN [x EXCEPT !.c = Append(@, CallR(fn, arg, x.w, <<>>)),
                   !.err = "RuntimeError", !.w.failed = @ + 1]
    ELSE [x EXCEPT !.c = Append(@, CallR(fn, arg, x.w, <<>>)), !.left = @ - 1]

\* an external call: it is recorded, and it raises when left is used up
Ext(f, fn, arg) == Bind(f, LAMBDA x : ExtOf(x, fn, arg))

\* assignments to the workspace, skipped once an exception is on its way
Set(f, W(_)) == Bind(f, LAMBDA x : IF x.err # None THEN x ELSE [x EXCEPT !.w = W(x.w)])

\* a Python exception raised by the statement itself when Cond holds
Raise(f, Cond(_), what) ==
    Bind(f, LAMBDA x : IF x.err = None /\ Cond(x.w) THEN [x EXCEPT !.err = what] ELSE x)

\* The ways the operation Body can go on the workspace w: with every external
\* call succeeding, and with its k-th external call failing, for each k, while
\* fewer than MaxFail external calls have failed so far.
Runs(Body(_), w) ==
    UNION { {x} \cup (IF w.failed < MaxFail
                      THEN { Body(Frame(w, <<>>, k)) : k \in 0..(Len(x.c) - 1) }
                      ELSE {}) :
            x \in {Body(Frame(w, <<>>, MaxExt))} }

\* how the operation op ended
Ended(op, f) == IF f.err = None THEN Returned(op, <<>>) ELSE Raised(op, f.err)

(***************************************************************************)
(* get_fieldmap_correction                                                 *)
(***************************************************************************)
\* Lines 179-200: struc.segment, epi_reg, convertwarp
FieldmapEstimate(f) ==
    LET f1 == Ext(f, "struc.segment", "wsp")
        f2 == Set(f1, LAMBDA w :
                    Log(w, "Distortion correction from fieldmap images using EPI_REG"))
        f3 == Ext(f2, "epi_reg", "fmap")
        f4 == Set(f3, LAMBDA w : [w EXCEPT !.fieldmap_warp_struc = "epi_reg_out_warp",
                                           !.fieldmap_asl2struc = "epi_reg_out",
                                           !.fieldmap_struc2asl = "inv(epi_reg_out)"])
        f5 == Ext(f4, "convertwarp", "warp1=fieldmap.warp_struc,postmat=fieldmap.struc2asl")
    IN  Set(f5, LAMBDA w : [w EXCEPT !.fieldmap_warp = "fieldmap_warp"])

\* Lines 202-212: the report is written after the if, whatever branch was
\* taken.  "%f" % wsp.echospacing raises TypeError when echospacing is None and
\* wsp.fieldmap.warp.data raises AttributeError when there is no warp.
FieldmapReport(f) ==
    LET f1 == Raise(f, LAMBDA w : w.echospacing = NoNumber, "TypeError")
    IN  Raise(f1, LAMBDA w : w.fieldmap_warp = None, "AttributeError")

\* Lines 174-200: the three branches
FieldmapBranch(x) ==
    IF x.w.fmap = None \/ x.w.fmapmag = None \/ x.w.fmapmagbrain = None
    THEN Set(x, LAMBDA w : Log(w, "No fieldmap images for distortion correction"))
    ELSE IF x.w.pedir = None \/ x.w.echospacing = NoNumber
    THEN Set(x, LAMBDA w : Log(w, "WARNING: Fieldmap images supplied but pedir and echospacing required for distortion correction"))
    ELSE FieldmapEstimate(x)

\* Lines 173-214
FieldmapProg(f) ==
    LET f1 == Set(f, LAMBDA w : [w EXCEPT !.fieldmap = TRUE, !.fieldmap_warp_struc = None,
                                          !.fieldmap_asl2struc = None,
                                          !.fieldmap_struc2asl = None,
                                          !.fieldmap_warp = None])
        f2 == Bind(f1, FieldmapBranch)
        f3 == FieldmapReport(f2)
    IN  Set(f3, LAMBDA w : [w EXCEPT !.done = @ \cup {"get_fieldmap_correction"}])

get_fieldmap_correction ==
    IF isdone(wsp, "get_fieldmap_correction")
    THEN /\ outcome' = Returned("get_fieldmap_correction", <<>>)
         /\ calls' = <<>>
         /\ UNCHANGED wsp
    ELSE \E f \in Runs(FieldmapProg, wsp) :
            /\ wsp' = f.w
            /\ calls' = f.c
            /\ outcome' = Ended("get_fieldmap_correction", f)

(***************************************************************************)
(* get_cblip_correction                                                    *)
(***************************************************************************)
Pedirs == {"x", "-x", "y", "-y", "z", "-z"}

\* Lines 107-114
topup_params(pedir) ==
    CASE pedir = "x"  -> << <<1, 0, 0, -99>>, <<-1, 0, 0, -99>> >>
      [] pedir = "-x" -> << <<-1, 0, 0, -99>>, <<1, 0, 0, -99>> >>
      [] pedir = "y"  -> << <<0, 1, 0, -99>>, <<0, -1, 0, -99>> >>
      [] pedir = "-y" -> << <<0, -1, 0, -99>>, <<0, 1, 0, -99>> >>
      [] pedir = "z"  -> << <<0, 0, 1, -99>>, <<0, 0, -1, -99>> >>
      [] pedir = "-z" -> << <<0, 0, -1, -99>>, <<0, 0, 1, -99>> >>

\* Lines 115-119, an index counted from 0
dim_idx(pedir) ==
    CASE pedir \in {"x", "-x"} -> 0
      [] pedir \in {"y", "-y"} -> 1
      [] pedir \in {"z", "-z"} -> 2

\* the readout time taken over the N voxels, not over the N - 1 steps between
\* them
my_topup_paramsAllVoxels(w) ==
    LET dimsize == w.asldata_shape[dim_idx(w.pedir) + 1]
    IN  [r \in 1..2 |-> [topup_params(w.pedir)[r] EXCEPT ![4] = w.echospacing * dimsize]]

\* Lines 120-122
my_topup_params(w) ==
    LET dimsize == w.asldata_shape[dim_idx(w.pedir) + 1]
    IN  [r \in 1..2 |-> [topup_params(w.pedir)[r] EXCEPT ![4] = w.echospacing * (dimsize - 1)]]

\* Lines 104-144
CblipProg(f) ==
    LET f1 == Set(f, LAMBDA w :
                    Log([w EXCEPT !.topup = TRUE, !.topup_params = NoMat,
                                  !.topup_calib_blipped = NoImage,
                                  !.topup_fieldcoef = None, !.topup_movpar = None,
                                  !.topup_iout = None, !.topup_fout = None],
                        "Distortion Correction using TOPUP"))
        f2 == Raise(f1, LAMBDA w : w.pedir \notin Pedirs, "KeyError")
        f3 == Raise(f2, LAMBDA w : w.echospacing = NoNumber, "TypeError")
        f4 == Set(f3, LAMBDA w : [w EXCEPT !.topup_params = my_topup_params(w)])
        f5 == Raise(f4, LAMBDA w : \/ w.calibration_calib_asl = NoImage
                                   \/ w.calibration_cblip_asl = NoImage, "AttributeError")
        f6 == Set(f5, LAMBDA w : [w EXCEPT !.topup_calib_blipped =
                            Image(w.calibration_calib_asl.data \o w.calibration_cblip_asl.data,
                                  w.calibration_calib_asl.header)])
        f7 == Ext(f6, "topup", "imain=topup.calib_blipped,datain=topup.params")
        f8 == Set(f7, LAMBDA w : [w EXCEPT !.topup_fieldcoef = "out_fieldcoef",
                                           !.topup_movpar = "out_movpar",
                                           !.topup_iout = "iout", !.topup_fout = "fout"])
    IN  Set(f8, LAMBDA w : [w EXCEPT !.done = @ \cup {"get_cblip_correction"}])

get_cblip_correction ==
    IF isdone(wsp, "get_cblip_correction")
    THEN /\ outcome' = Returned("get_cblip_correction", <<>>)
         /\ calls' = <<>>
         /\ UNCHANGED wsp
    ELSE \E f \in Runs(CblipProg, wsp) :
            /\ wsp' = f.w
            /\ calls' = f.c
            /\ outcome' = Ended("get_cblip_correction", f)

(***************************************************************************)
(* apply_corrections and correct_img                                       *)
(***************************************************************************)
\* one step of the making of an image
Step(op, premat, warp, index) ==
    [op |-> op, src |-> "", premat |-> premat, warp |-> warp, index |-> index]

\* img.data.ndim: the ASL series has four dimensions, the calibration images
\* three
ndim(img) == IF img.header = "asldata" THEN 4 ELSE 3

\* Lines 463-468: the multiplication by the Jacobian jacobian, its data given a
\* trailing axis when the image has four dimensions; index is the number of
\* dimensions the Jacobian was multiplied in
TimesJacobian(jacobian, dims) ==
    [op |-> "times_jacobian", src |-> jacobian, premat |-> NoMat, warp |-> NoMat,
     index |-> dims]

\* correct_img that never multiplies by the Jacobian
CorrectedImageUnscaled(w, img, linear_mat) ==
    Image(Append(img.data, Step("applywarp", linear_mat, w.distcorr_warp, 0)), "asl.data")

\* Lines 460-469: the image correct_img returns.  linear_mat is a list of
\* matrices: the motion matrices, or the one calibration->ASL matrix.
CorrectedImage(w, img, linear_mat) ==
    LET warped == Image(Append(img.data, Step("applywarp", linear_mat, w.distcorr_warp, 0)),
                        "asl.data")
    IN  IF w.distcorr_jacobian # None
        THEN Image(Append(warped.data, TimesJacobian(w.distcorr_jacobian, ndim(img))),
                   warped.header)
        ELSE warped

\* fsl.applytopup(img, index=index)["out"]
TopupImage(img, index) ==
    Image(Append(img.data, Step("applytopup", NoMat, NoMat, index)), img.header)

\* wsp.reg.calib2asl as the premat of correct_img
Calib2AslMat(w) == IF w.reg_calib2asl = NoMat THEN NoMat ELSE <<w.reg_calib2asl>>

\* Lines 369-376: the list warps.  A fieldmap sub-workspace contributes its
\* warp attribute, set or not.
Warps(w) ==
    (IF w.fieldmap THEN <<w.fieldmap_warp>> ELSE <<>>)
        \o (IF w.gdc_warp # None THEN <<w.gdc_warp>> ELSE <<>>)

\* Line 389: not warps and wsp.moco.mc_mats is None
NothingToApply(w) == Warps(w) = <<>> /\ w.moco_mc_mats = NoMat

\* Lines 378-387
CombineWarps(x) ==
    IF Warps(x.w) # <<>>
    THEN LET f1 == Set(x, LAMBDA w :
                        Log(w, "Converting all warps to single transform and extracting Jacobian"))
             f2 == Ext(f1, "convertwarp", "warps,jacobian")
         IN  Set(f2, LAMBDA w : [w EXCEPT !.distcorr_warp = Warps(w),
                                          !.distcorr_jacobian = "jacobian_mean"])
    ELSE x

\* Lines 393-406
Resample(x) ==
    LET hasCalib == x.w.calibration_calib # NoImage
        hasCref == hasCalib /\ x.w.calibration_cref # NoImage
        hasCblip == hasCalib /\ x.w.calibration_cblip # NoImage
        f1 == Ext(x, "applywarp", "asldata,premat=moco.mc_mats")
        f2 == Set(f1, LAMBDA w : [w EXCEPT !.asl_data =
                          Image(CorrectedImage(w, w.asldata, w.moco_mc_mats).data,
                                w.asldata.header)])
        f3 == IF hasCalib THEN Ext(f2, "applywarp", "calib,premat=reg.calib2asl") ELSE f2
        f4 == IF hasCalib
              THEN Set(f3, LAMBDA w : [w EXCEPT !.calibration_calib_asl =
                              CorrectedImage(w, w.calibration_calib, Calib2AslMat(w))])
              ELSE f3
        f5 == IF hasCref THEN Ext(f4, "applywarp", "cref,premat=reg.calib2asl") ELSE f4
        f6 == IF hasCref
              THEN Set(f5, LAMBDA w : [w EXCEPT !.calibration_cref_asl =
                              CorrectedImage(w, w.calibration_cref, Calib2AslMat(w))])
              ELSE f5
        f7 == IF hasCblip THEN Ext(f6, "applywarp", "cblip,premat=reg.calib2asl") ELSE f6
    IN  IF hasCblip
        THEN Set(f7, LAMBDA w : [w EXCEPT !.calibration_cblip_asl =
                        CorrectedImage(w, w.calibration_cblip, Calib2AslMat(w))])
        ELSE f7

\* Lines 414-428, the body of the try.  fsl.applytopup cannot read an image
\* that is None.
TopupPass(x) ==
    LET hasCref == x.w.calibration_cref # NoImage
        f1 == Raise(x, LAMBDA w : w.topup_fieldcoef = None, "AttributeError")
        f2 == Raise(f1, LAMBDA w : w.topup_movpar = None, "TypeError")
        f3 == Set(f2, LAMBDA w :
                    [w EXCEPT !.calibration_calib_asl_pretopup = w.calibration_calib_asl])
        f4 == Raise(f3, LAMBDA w : w.calibration_calib_asl = NoImage, "AttributeError")
        f5 == Ext(f4, "applytopup", "calib_asl,index=1")
        f6 == Set(f5, LAMBDA w :
                    [w EXCEPT !.calibration_calib_asl = TopupImage(w.calibration_calib_asl, 1)])
        f7 == Set(f6, LAMBDA w :
                    [w EXCEPT !.calibration_cblip_asl_pretopup = w.calibration_cblip_asl])
        f8 == Raise(f7, LAMBDA w : w.calibration_cblip_asl = NoImage, "AttributeError")
        f9 == Ext(f8, "applytopup", "cblip_asl,index=2")
        f10 == Set(f9, LAMBDA w :
                    [w EXCEPT !.calibration_cblip_asl = TopupImage(w.calibration_cblip_asl, 2)])
        f11 == IF hasCref
               THEN Raise(f10, LAMBDA w : w.calibration_cref_asl = NoImage, "AttributeError")
               ELSE f10
        f12 == IF hasCref THEN Ext(f11, "applytopup", "cref_asl,index=1") ELSE f11
        f13 == IF hasCref
               THEN Set(f12, LAMBDA w :
                    [w EXCEPT !.calibration_cref_asl = TopupImage(w.calibration_cref_asl, 1)])
               ELSE f12
        f14 == Set(f13, LAMBDA w : [w EXCEPT !.asl_data_pretopup = w.asl_data])
        f15 == Ext(f14, "applytopup", "asl.data,index=1")
    IN  Set(f15, LAMBDA w : [w EXCEPT !.asl_data = TopupImage(w.asl_data, 1)])

\* the removal written after the try instead of in a finally clause
RemoveTopupInputOnSuccess(x) == IF x.err = None THEN [x EXCEPT !.w.topup_input = FALSE] ELSE x

\* the finally clause: shutil.rmtree(topup_input), exception or not
RemoveTopupInput(x) == [x EXCEPT !.w.topup_input = FALSE]

\* Lines 408-434: tempfile.mkdtemp, try, finally
TopupStage(x) ==
    IF x.err = None /\ x.w.topup
    THEN LET f1 == Set(x, LAMBDA w : [Log(w, "Adding TOPUP distortion correction")
                                        EXCEPT !.topup_input = TRUE])
             f2 == Bind(f1, TopupPass)
         IN  Bind(f2, RemoveTopupInput)
    ELSE x

\* Lines 389-434: the early return, or the resampling and the TOPUP pass
AfterWarps(x) ==
    IF x.err = None /\ NothingToApply(x.w)
    THEN Set(x, LAMBDA w : Log(w, "No corrections to apply"))
    ELSE Bind(Bind(x, Resample), TopupStage)

\* Lines 362-434
ApplyProg(f) ==
    LET f1 == Set(f, LAMBDA w :
                    Log([w EXCEPT !.distcorr = TRUE, !.distcorr_warp = NoMat,
                                  !.distcorr_jacobian = None],
                        "Applying corrections to data"))
        f2 == Bind(f1, CombineWarps)
    IN  Bind(f2, AfterWarps)

apply_corrections ==
    \E f \in Runs(ApplyProg, wsp) :
        /\ wsp' = f.w
        /\ calls' = f.c
        /\ outcome' = Ended("apply_corrections", f)

\* fmap, fmapmag, fmapmagbrain: one missing, or all three supplied
FmapInputs ==
    { <<"fmap", "fmapmag", None>>, <<"fmap", "fmapmag", "fmapmagbrain">> }

\* calib, cref, cblip: the reference and the blipped image come with a
\* calibration image.  The fourth component says whether the initialisation of
\* the calibration data (calib.init, called at line 250) has already provided
\* the images in ASL space, calib_asl, cref_asl and cblip_asl, which
\* get_cblip_correction reads at line 126 while it requires calib and cblip
\* only (lines 86-89).
CalibInputs ==
    { <<NoImage, NoImage, NoImage, FALSE>> } \cup
    { <<RawImage("calib"), cref, cblip, inAsl>> :
        cref \in {NoImage, RawImage("cref")}, cblip \in {NoImage, RawImage("cblip")},
        inAsl \in BOOLEAN }

CorrInit ==
    /\ wsp \in { [EmptyWsp EXCEPT !.asldata = RawImage("asldata"),
                                  !.asl_data = RawImage("asldata"),
                                  !.asldata_nvols = n,
                                  !.asldata_shape = <<2, 3, 4>>,
                                  !.calibration_calib = cal[1],
                                  !.calibration_cref = cal[2],
                                  !.calibration_cblip = cal[3],
                                  !.calibration_calib_asl = IF cal[4] THEN cal[1] ELSE NoImage,
                                  !.calibration_cref_asl = IF cal[4] THEN cal[2] ELSE NoImage,
                                  !.calibration_cblip_asl = IF cal[4] THEN cal[3] ELSE NoImage,
                                  !.fmap = fm[1], !.fmapmag = fm[2], !.fmapmagbrain = fm[3],
                                  !.pedir = pedir, !.echospacing = es,
                                  !.gdc_warp = gdc] :
                   n \in 1..CorrVols,
                   cal \in CalibInputs,
                   fm \in FmapInputs,
                   pedir \in {None, "-y", "q"},
                   es \in {NoNumber, 2},
                   gdc \in {None, "gdc_warp"} }
    /\ calls = <<>>
    /\ outcome = NoOutcome

CorrNext ==
    \/ get_motion_correction
    \/ get_fieldmap_correction
    \/ get_cblip_correction
    \/ apply_corrections

SpecCorr == CorrInit /\ [][CorrNext]_vars

InSeq(x, s) == \E i \in 1..Len(s) : s[i] = x

\* C1 (as claimed): a run that was asked for surface-based PVC and returned has
\* appended "basil_surf_pvcorr" to quantify_wsps, and "basil_pvcorr" too when
\* pvcorr was also asked for.
C1_SurfPvcorrProduced ==
    (outcome.op = "run" /\ outcome.status = "returned" /\ wsp.surf_pvcorr)
        => /\ InSeq("basil_surf_pvcorr", wsp.quantify_wsps)
           /\ wsp.pvcorr => InSeq("basil_pvcorr", wsp.quantify_wsps)

\* C2 (as claimed): with surface-based PVC asked for and the oxasl_surfpvc
\* plugin absent, run ends by raising; it never returns normally.
C2_MissingPluginIsFatal ==
    (outcome.op = "run" /\ wsp.surf_pvcorr /\ wsp.oxasl_surfpvc = None)
        => outcome.status = "raised"

\* C3 (as claimed): after get_sensitivity_correction, with the correction not
\* disabled and a user-supplied field isen, the sensitivity field is isen.
C3_UserFieldUsed ==
    (outcome.op = "get_sensitivity_correction" /\ ~wsp.senscorr_off /\ wsp.isen # NoImage)
        => wsp.sensitivity = wsp.isen

\* the fraction f is the product of the fractions a and b
IsProduct(f, a, b) == f[1] * a[2] * b[2] = f[2] * a[1] * b[1]

\* C4: after get_sensitivity_correction the call has returned and, first match
\* winning: with senscorr_off there is no field; else, with no user field, with
\* a calibration and a reference image the field times the reference is the
\* calibration image, voxel by voxel, on the calibration header, whatever
\* senscorr_auto and bias are; else with senscorr_auto and a bias field it is the
\* reciprocal of the bias field taken to ASL space; else there is no field.
C4_SensitivityPrecedence ==
    outcome.op = "get_sensitivity_correction" =>
        /\ outcome.status = "returned"
        /\ wsp.senscorr_off => wsp.sensitivity = NoImage
        /\ (~wsp.senscorr_off /\ wsp.isen = NoImage) =>
            IF wsp.calibration_calib # NoImage /\ wsp.calibration_cref # NoImage
            THEN /\ wsp.sensitivity # NoImage
                 /\ wsp.sensitivity.header = wsp.calibration_calib.header
                 /\ \A v \in Vox : IsProduct(wsp.calibration_calib.data[v],
                                             wsp.sensitivity.data[v],
                                             wsp.calibration_cref.data[v])
            ELSE IF wsp.senscorr_auto /\ wsp.bias # NoImage
            THEN wsp.sensitivity =
                    struc2asl(Image([v \in Vox |-> <<wsp.bias.data[v][2], wsp.bias.data[v][1]>>],
                                    "struc"))
            ELSE wsp.sensitivity = NoImage

\* C4 witness: the calibration/reference ratio was taken although automatic
\* mode and a bias field were available too, on images that are not flat.
C4_Witness ==
    /\ outcome.op = "get_sensitivity_correction"
    /\ ~wsp.senscorr_off /\ wsp.isen = NoImage
    /\ wsp.calibration_calib # NoImage /\ wsp.calibration_cref # NoImage
    /\ wsp.senscorr_auto /\ wsp.bias # NoImage
    /\ wsp.sensitivity # NoImage
    /\ wsp.sensitivity.data[1] # wsp.sensitivity.data[2]
    /\ wsp.sensitivity.data[1] # <<1, 1>>

\* C5: apply_sensitivity_correction called on k images while no sensitivity
\* field is defined returns normally, and returns exactly its k arguments in
\* their order.
C5_NoFieldIsIdentity ==
    (outcome.op = "apply_sensitivity_correction" /\ wsp.sensitivity = NoImage)
        => /\ outcome.status = "returned"
           /\ Len(outcome.ret) = Len(outcome.args)
           /\ \A i \in 1..Len(outcome.args) : outcome.ret[i] = outcome.args[i]

\* C5 witness: such a call on two different images.
C5_Witness ==
    /\ outcome.op = "apply_sensitivity_correction"
    /\ wsp.sensitivity = NoImage
    /\ Len(outcome.args) >= 2
    /\ outcome.args[1] # outcome.args[2]

\* the last step of the making of the image img
LastStep(img) == img.data[Len(img.data)].op

\* C6 (as claimed): once get_cblip_correction has completed, an
\* apply_corrections that returns has applied the TOPUP field to the ASL data
\* and to the calibration images, whatever other corrections there are, none
\* included.
C6_TopupPassApplied ==
    (/\ outcome = Returned("apply_corrections", <<>>)
     /\ isdone(wsp, "get_cblip_correction"))
        => /\ LastStep(wsp.asl_data) = "applytopup"
           /\ LastStep(wsp.calibration_calib_asl) = "applytopup"
           /\ LastStep(wsp.calibration_cblip_asl) = "applytopup"

\* C7 (as claimed): an apply_corrections that starts with no motion matrices,
\* no fieldmap warp and no gradient warp returns, invokes no external step and
\* leaves the ASL data and the calibration images in ASL space as they were.
C7_NoOpWithoutTransforms ==
    [][(/\ outcome'.op = "apply_corrections"
        /\ wsp.moco_mc_mats = NoMat
        /\ wsp.fieldmap_warp = None
        /\ wsp.gdc_warp = None)
        => /\ outcome'.status = "returned"
           /\ calls' = <<>>
           /\ wsp'.asl_data = wsp.asl_data
           /\ wsp'.calibration_calib_asl = wsp.calibration_calib_asl
           /\ wsp'.calibration_cref_asl = wsp.calibration_cref_asl
           /\ wsp'.calibration_cblip_asl = wsp.calibration_cblip_asl]_vars

\* C8 (as claimed): get_fieldmap_correction on a workspace that has the three
\* fieldmap images but no phase-encode direction or no echo spacing returns
\* normally, having logged a warning and produced no fieldmap warp.
C8_MissingPedirIsWarning ==
    (/\ outcome.op = "get_fieldmap_correction"
     /\ wsp.fmap # None /\ wsp.fmapmag # None /\ wsp.fmapmagbrain # None
     /\ (wsp.pedir = None \/ wsp.echospacing = NoNumber))
        => /\ outcome.status = "returned"
           /\ wsp.fieldmap_warp = None
           /\ "WARNING: Fieldmap images supplied but pedir and echospacing required for distortion correction" \in wsp.log

\* the matrices mcflirt returned to the operation that has just ended
RawMats == calls[1].result

\* get_motion_correction has just run mcflirt and completed
MocoCompleted ==
    /\ outcome = Returned("get_motion_correction", <<>>)
    /\ calls # <<>>

\* the stored transforms are the raw ones, each pre-multiplied by the inverse
\* of the raw transform of volume floor(n/2), and the stored transform of that
\* volume is the identity
Recentred ==
    LET n == wsp.asldata_nvols
        m == (n \div 2) + 1
    IN  /\ Len(wsp.moco_mc_mats) = n
        /\ \A v \in 1..n :
              \A i \in 1..3 : RawMats[m][wsp.moco_mc_mats[v][i]] = RawMats[v][i]
        /\ wsp.moco_mc_mats[m] = <<1, 2, 3>>

\* C9 (as claimed): after get_motion_correction has completed, with the
\* calibration image or the middle volume as reference, the transforms have
\* been re-centred on volume floor(n/2), whose stored transform is the identity.
C9_AlwaysRecentred == MocoCompleted => Recentred

\* C9 (amended): after get_motion_correction has completed with the
\* calibration image as reference the transforms have been re-centred on
\* volume floor(n/2), whose stored transform is the identity; with the middle
\* volume as reference the stored transforms are those mcflirt returned.
C9_RecentredOnCalibReference ==
    MocoCompleted =>
        IF wsp.calibration_calib # NoImage THEN Recentred
        ELSE wsp.moco_mc_mats = RawMats

\* C9 witness: a series of four volumes registered to the calibration image,
\* whose raw middle transform was not the identity and whose raw transforms
\* differ.
C9_Witness ==
    /\ MocoCompleted /\ wsp.calibration_calib # NoImage
    /\ wsp.asldata_nvols = 4
    /\ RawMats[3] # <<1, 2, 3>> /\ RawMats[1] # RawMats[3] /\ RawMats[2] # RawMats[3]
    /\ wsp.moco_mc_mats[3] = <<1, 2, 3>>

\* C10: a completed get_motion_correction used the calibration image as the
\* reference of mcflirt when there is one and no reference file otherwise;
\* with a calibration image asl2calib is the raw transform of volume
\* floor(n/2) and calib2asl composed with it, either way round, is the
\* identity; without one neither is set.
C10_ReferenceAndRelation ==
    MocoCompleted =>
        IF wsp.calibration_calib # NoImage
        THEN /\ calls[1].arg = "reffile=calib"
             /\ wsp.moco_ref = wsp.calibration_calib
             /\ wsp.reg_asl2calib = RawMats[(wsp.asldata_nvols \div 2) + 1]
             /\ \A i \in 1..3 : /\ wsp.reg_asl2calib[wsp.reg_calib2asl[i]] = i
                                /\ wsp.reg_calib2asl[wsp.reg_asl2calib[i]] = i
        ELSE /\ calls[1].arg = "reffile=None"
             /\ wsp.moco_ref = NoImage
             /\ wsp.reg_asl2calib = NoMat
             /\ wsp.reg_calib2asl = NoMat

\* C10 witness: six volumes and a calibration image; asl2calib is the raw
\* transform of the volume of index 3, which differs from those of indices 2
\* and 4 and is not the identity.
C10_Witness ==
    /\ MocoCompleted /\ wsp.calibration_calib # NoImage
    /\ wsp.asldata_nvols = 6
    /\ wsp.reg_asl2calib = RawMats[4]
    /\ RawMats[4] # RawMats[3] /\ RawMats[4] # RawMats[5]
    /\ RawMats[4] # <<1, 2, 3>>

\* the stages that estimate a correction
Stages == {"get_motion_correction", "get_fieldmap_correction", "get_cblip_correction"}

\* C11: a call of a stage that has already completed on this workspace
\* returns, invokes no external step and leaves every field of the workspace
\* as it was, whatever other stages ran in between.
C11_CompletedStageNotRerun ==
    [][(outcome'.op \in Stages /\ outcome'.op \in wsp.done)
        => /\ outcome'.status = "returned"
           /\ calls' = <<>>
           /\ wsp' = wsp]_vars

\* C11 witness: the three stages have completed and the blip stage has been
\* called again.
C11_Witness ==
    /\ Stages \subseteq wsp.done
    /\ outcome = Returned("get_cblip_correction", <<>>)
    /\ calls = <<>>

\* the workspace w without the log and without the count of failures so far
Fields(w) == [w EXCEPT !.log = {}, !.failed = 0]

\* C12 (as claimed): a stage that raises, from an external step or from an
\* invalid input, leaves the workspace as it was when the stage started: no
\* sub-workspace and no field the stage wrote remains, and the stage is not
\* marked done.
C12_FailedStageLeavesNoTrace ==
    [][(outcome'.op \in Stages /\ outcome'.status = "raised")
        => /\ Fields(wsp') = Fields(wsp)
           /\ outcome'.op \notin wsp'.done]_vars

(***************************************************************************)
(* get_cblip_correction on its own, for every phase-encode direction,      *)
(* echo spacing 1..MaxEs and every shape with 1..MaxDim voxels along each  *)
(* axis.                                                                   *)
(***************************************************************************)
CblipInit ==
    /\ wsp \in { [EmptyWsp EXCEPT !.asldata = RawImage("asldata"),
                                  !.asl_data = RawImage("asldata"),
                                  !.asldata_nvols = 1,
                                  !.asldata_shape = shape,
                                  !.calibration_calib = RawImage("calib"),
                                  !.calibration_cblip = RawImage("cblip"),
                                  !.calibration_calib_asl = RawImage("calib"),
                                  !.calibration_cblip_asl = RawImage("cblip"),
                                  !.pedir = pedir, !.echospacing = es] :
                   shape \in [1..3 -> 1..MaxDim],
                   pedir \in Pedirs,
                   es \in 1..MaxEs }
    /\ calls = <<>>
    /\ outcome = NoOutcome

CblipNext == get_cblip_correction

SpecCblip == CblipInit /\ [][CblipNext]_vars

\* the encoding axis of a phase-encode direction, counted from 1
AxisOf(pedir) == IF pedir \in {"x", "-x"} THEN 1 ELSE IF pedir \in {"y", "-y"} THEN 2 ELSE 3

\* +1 for x, y, z and -1 for -x, -y, -z
SignOf(pedir) == IF pedir \in {"x", "y", "z"} THEN 1 ELSE 0 - 1

\* get_cblip_correction has just run topup and completed
CblipCompleted ==
    /\ outcome = Returned("get_cblip_correction", <<>>)
    /\ calls # <<>>

\* C13: the table get_cblip_correction built has exactly two rows of four
\* entries; the first row is the sign of the direction on the encoding axis
\* and 0 on the two others, the second row is its negation, and the fourth
\* entry of both rows is echospacing * (N - 1), N the number of voxels of the
\* ASL data along the encoding axis, never the placeholder -99.
C13_TopupParamsTable ==
    CblipCompleted =>
        LET p == wsp.topup_params
            axis == AxisOf(wsp.pedir)
        IN  /\ Len(p) = 2
            /\ Len(p[1]) = 4 /\ Len(p[2]) = 4
            /\ \A j \in 1..3 :
                  /\ p[1][j] = (IF j = axis THEN SignOf(wsp.pedir) ELSE 0)
                  /\ p[2][j] = 0 - p[1][j]
            /\ \A r \in 1..2 :
                  /\ p[r][4] = wsp.echospacing * (wsp.asldata_shape[axis] - 1)
                  /\ p[r][4] # 0 - 99

\* C13 witness: direction -z on a shape whose three axes differ, with an echo
\* spacing other than 1.
C13_Witness ==
    /\ CblipCompleted
    /\ wsp.pedir = "-z" /\ wsp.echospacing = 2
    /\ wsp.asldata_shape = <<1, 2, 3>>
    /\ wsp.topup_params = << <<0, 0, 0 - 1, 4>>, <<0, 0, 1, 4>> >>

\* the warps that exist, the fieldmap warp first and the gradient warp second
ExistingWarps(w) ==
    (IF w.fieldmap_warp # None THEN <<w.fieldmap_warp>> ELSE <<>>)
        \o (IF w.gdc_warp # None THEN <<w.gdc_warp>> ELSE <<>>)

\* C14 (as claimed): an apply_corrections that returns with a fieldmap warp or
\* a gradient warp has combined the warps that exist, fieldmap first, into
\* one warp with a Jacobian; with neither warp, a fieldmap stage that produced
\* none included, apply_corrections does not call convertwarp and there is no
\* combined warp and no Jacobian.
C14_CombinesExistingWarps ==
    outcome.op = "apply_corrections" =>
        IF ExistingWarps(wsp) # <<>>
        THEN outcome.status = "returned"
                => /\ wsp.distcorr_warp = ExistingWarps(wsp)
                   /\ wsp.distcorr_jacobian # None
        ELSE /\ \A i \in 1..Len(calls) : calls[i].fn # "convertwarp"
             /\ wsp.distcorr_warp = NoMat
             /\ wsp.distcorr_jacobian = None

\* the stage identifiers in the order of the claim
StageOrder ==
    <<"basil", "basil_struc", "basil_std", "basil_custom", "basil_pvcorr", "basil_surf_pvcorr">>

\* the place of the identifier x in StageOrder, 0 when it is not one
StagePos(x) ==
    IF InSeq(x, StageOrder) THEN CHOOSE i \in 1..Len(StageOrder) : StageOrder[i] = x ELSE 0

\* C15: after quantify.run on a workspace whose quantify_wsps was empty, the
\* list holds identifiers of StageOrder only, in that order and none twice,
\* "basil" first; basil_<space> is in it exactly when quantify_<space> is
\* set; and reg.run was called once, after the plain fit and before every
\* other fit.
C15_OrderedStageList ==
    outcome.op = "run" =>
        LET q == wsp.quantify_wsps
        IN  /\ Len(q) >= 1 /\ q[1] = "basil"
            /\ \A i \in 1..Len(q) : StagePos(q[i]) > 0
            /\ \A i \in 1..Len(q) : \A j \in 1..Len(q) :
                    i < j => StagePos(q[i]) < StagePos(q[j])
            /\ InSeq("basil_struc", q) <=> (wsp.quantify_struc = "True")
            /\ InSeq("basil_std", q) <=> (wsp.quantify_std = "True")
            /\ InSeq("basil_custom", q) <=> (wsp.quantify_custom = "True")
            /\ \E r \in 1..Len(calls) :
                  /\ calls[r].fn = "reg.run"
                  /\ \A i \in 1..Len(calls) :
                        /\ calls[i].fn = "reg.run" => i = r
                        /\ calls[i].fn = "fit.run" => ((i < r) <=> (calls[i].arg = "basil"))

\* C15 witness: a run with the three alternate spaces and the PVC fit.
C15_Witness ==
    /\ outcome.op = "run"
    /\ wsp.quantify_wsps =
          <<"basil", "basil_struc", "basil_std", "basil_custom", "basil_pvcorr">>
    /\ Len(calls) >= 6

(***************************************************************************)
(* apply_sensitivity_correction on its own: sensitivity and senscorr_off   *)
(* are optional attributes of the workspace it is handed (lines 481-485).  *)
(***************************************************************************)
\* the sensitivity fields: every image whose voxel values are a / b, a and b
\* in 1..MaxVal
SensitivityFields ==
    { Image([v \in Vox |-> Frac(a[v], b[v])], "sensitivity") :
        a \in [Vox -> 1..MaxVal], b \in [Vox -> 1..MaxVal] }

ApplySensInit ==
    /\ wsp \in { [EmptyWsp EXCEPT !.senscorr_off = off, !.sensitivity = sens] :
                   off \in BOOLEAN, sens \in {NoImage} \cup SensitivityFields }
    /\ calls = <<>>
    /\ outcome = NoOutcome

ApplySensNext == apply_sensitivity_correction

SpecApplySens == ApplySensInit /\ [][ApplySensNext]_vars

\* C20: apply_sensitivity_correction on k images with a sensitivity field
\* returns k images; unless senscorr_off is set, the i-th has the header of
\* the i-th argument and, voxel by voxel, times the sensitivity field is the
\* i-th argument; with senscorr_off set the arguments are returned as they
\* are.
C20_DividesBySensitivity ==
    (outcome.op = "apply_sensitivity_correction" /\ wsp.sensitivity # NoImage)
        => /\ outcome.status = "returned"
           /\ Len(outcome.ret) = Len(outcome.args)
           /\ IF wsp.senscorr_off
              THEN outcome.ret = outcome.args
              ELSE \A i \in 1..Len(outcome.args) :
                      /\ outcome.ret[i].header = outcome.args[i].header
                      /\ \A v \in Vox : IsProduct(outcome.args[i].data[v],
                                                  outcome.ret[i].data[v],
                                                  wsp.sensitivity.data[v])

\* C20 witness: two different images divided by a field that is not flat and
\* changes both voxels.
C20_Witness ==
    /\ outcome.op = "apply_sensitivity_correction"
    /\ wsp.sensitivity # NoImage /\ ~wsp.senscorr_off
    /\ wsp.sensitivity.data[1] # wsp.sensitivity.data[2]
    /\ wsp.sensitivity.data[1] # <<1, 1>> /\ wsp.sensitivity.data[2] # <<1, 1>>
    /\ Len(outcome.args) = 2 /\ outcome.args[1] # outcome.args[2]
    /\ outcome.ret[1].data # outcome.args[1].data

(***************************************************************************)
(* calib(perf, calibration, method, ...): the calibration of a perfusion   *)
(* image, as test_calib.py calls it.  Its code is not among the sources;   *)
(* it is modelled from the specification of the calibrator, and the        *)
(* defaults from the values the tests expect.  Numbers are fractions       *)
(* <<n, d>> in lowest terms.                                               *)
(***************************************************************************)
\* a keyword argument that was not given
NotGiven == <<>>

ifgiven(v, default) == IF v = NotGiven THEN default ELSE v

\* a * b, a / b and a + b on fractions; common factors are taken out before
\* the products are formed
Mul(a, b) ==
    LET g == GCD(a[1], b[2])
        h == GCD(b[1], a[2])
    IN  <<(a[1] \div g) * (b[1] \div h), (a[2] \div h) * (b[2] \div g)>>

Over(a, b) == Mul(a, <<b[2], b[1]>>)

Add(a, b) == Frac(a[1] * b[2] + b[1] * a[2], a[2] * b[2])

\* exp(-q) for q >= 0.  The value at 0 is exact; elsewhere 1 / (1 + q) stands
\* for it, a fraction that is below 1 and falls as q grows.
ExpNeg(q) == IF q[1] = 0 THEN <<1, 1>> ELSE Frac(q[2], q[1] + q[2])

\* 1 - exp(-q) with the same stand-in: q / (1 + q)
OneMinusExpNeg(q) == Frac(q[1], q[1] + q[2])

\* the table of tissue constants: T1, T2 and the partition coefficient
TissueTable ==
    [csf |-> [t1 |-> <<43, 10>>, t2 |-> <<750, 1>>, pc |-> <<23, 20>>],
     wm  |-> [t1 |-> <<1, 1>>,   t2 |-> <<50, 1>>,  pc |-> <<41, 50>>],
     gm  |-> [t1 |-> <<13, 10>>, t2 |-> <<100, 1>>, pc |-> <<49, 50>>]]

\* the defaults: partition coefficient of voxelwise calibration, gain, alpha,
\* multiplier, TR of the reference region, TE, T2 of blood
DefaultPct == <<9, 10>>

DefaultOne == <<1, 1>>

DefaultTr == <<16, 5>>

DefaultTe == <<0, 1>>

DefaultT2b == <<150, 1>>

\* the reference tissue, CSF when none is named
TissueOf(a) == IF a.tissref = None THEN "csf" ELSE a.tissref

\* the validation without the check of the method
CalibErrorMethodUnchecked(a) ==
    IF a.perf = NoImage \/ a.calib = NoImage THEN "MissingInputError"
    ELSE IF a.method = "refregion" /\ TissueOf(a) \notin DOMAIN TissueTable
    THEN "InvalidTissueTypeError"
    ELSE None

\* The validation of the arguments, before any computation: the error raised,
\* None when there is none.
CalibError(a) ==
    IF a.perf = NoImage \/ a.calib = NoImage THEN "MissingInputError"
    ELSE IF a.method \notin {"voxelwise", "refregion"} THEN "InvalidMethodError"
    ELSE IF a.method = "refregion" /\ TissueOf(a) \notin DOMAIN TissueTable
    THEN "InvalidTissueTypeError"
    ELSE None

\* the short-TR term is left out when TR is given and T1 is not
ShortTrWarning(a) == a.method = "voxelwise" /\ a.tr # NotGiven /\ a.t1t = NotGiven

\* m0 = calib / (1 - exp(-TR/T1)) / exp(-TE/T2) * gain / pc * exp(-TE/T2b) * alpha
M0(signal, shorttr, t2decay, gain, pc, t2bdecay, alpha) ==
    Mul(Mul(Over(Mul(Over(Over(signal, shorttr), t2decay), gain), pc), t2bdecay), alpha)

\* voxelwise M0 with the gain dividing where it multiplies
get_m0_voxelwiseGainInverted(a) ==
    LET shorttr == IF a.tr # NotGiven /\ a.t1t # NotGiven
                   THEN OneMinusExpNeg(Over(a.tr, a.t1t))
                   ELSE <<1, 1>>
    IN  [v \in Vox |-> M0(a.calib.data[v], shorttr, <<1, 1>>,
                          Over(<<1, 1>>, ifgiven(a.gain, DefaultOne)),
                          ifgiven(a.pct, DefaultPct), <<1, 1>>, ifgiven(a.alpha, DefaultOne))]

\* voxelwise M0 with the T1 of grey matter taken when none is given
get_m0_voxelwiseDefaultT1(a) ==
    LET shorttr == IF a.tr # NotGiven
                   THEN OneMinusExpNeg(Over(a.tr, ifgiven(a.t1t, TissueTable.gm.t1)))
                   ELSE <<1, 1>>
    IN  [v \in Vox |-> M0(a.calib.data[v], shorttr, <<1, 1>>, ifgiven(a.gain, DefaultOne),
                          ifgiven(a.pct, DefaultPct), <<1, 1>>, ifgiven(a.alpha, DefaultOne))]

\* Voxelwise M0, one value per voxel.  There is no tissue T2 in this mode, and
\* the short-TR term is there when both TR and T1 are given.
get_m0_voxelwise(a) ==
    LET shorttr == IF a.tr # NotGiven /\ a.t1t # NotGiven
                   THEN OneMinusExpNeg(Over(a.tr, a.t1t))
                   ELSE <<1, 1>>
    IN  [v \in Vox |-> M0(a.calib.data[v], shorttr, <<1, 1>>, ifgiven(a.gain, DefaultOne),
                          ifgiven(a.pct, DefaultPct), <<1, 1>>, ifgiven(a.alpha, DefaultOne))]

RECURSIVE SumOver(_, _)
SumOver(data, S) ==
    IF S = {} THEN <<0, 1>>
    ELSE LET v == CHOOSE x \in S : TRUE IN Add(data[v], SumOver(data, S \ {v}))

\* the mean of the calibration signal inside the reference mask
RefMean(a) == Over(SumOver(a.calib.data, a.ref_mask), <<Cardinality(a.ref_mask), 1>>)

\* Reference-region M0, one value for the image
get_m0_refregion(a) ==
    LET tissue == TissueTable[TissueOf(a)]
        tr == ifgiven(a.tr, DefaultTr)
    IN  M0(RefMean(a), OneMinusExpNeg(Over(tr, tissue.t1)),
           ExpNeg(Over(DefaultTe, tissue.t2)), ifgiven(a.gain, DefaultOne), tissue.pc,
           ExpNeg(Over(DefaultTe, DefaultT2b)), ifgiven(a.alpha, DefaultOne))

\* the variance scaled by the multiplier, not by its square
CalibratedMultiplierOnce(a) ==
    LET m0 == IF a.method = "voxelwise" THEN get_m0_voxelwise(a)
              ELSE [v \in Vox |-> get_m0_refregion(a)]
        mult == ifgiven(a.multiplier, DefaultOne)
    IN  Image([v \in Vox |->
                 IF a.var
                 THEN Mul(Over(a.perf.data[v], Mul(m0[v], m0[v])), mult)
                 ELSE Mul(Over(a.perf.data[v], m0[v]), mult)],
              "perfusion_calib")

\* result = perfusion / M0 * multiplier; for a variance, perfusion / M0^2 *
\* multiplier^2
Calibrated(a) ==
    LET m0 == IF a.method = "voxelwise" THEN get_m0_voxelwise(a)
              ELSE [v \in Vox |-> get_m0_refregion(a)]
        mult == ifgiven(a.multiplier, DefaultOne)
    IN  Image([v \in Vox |->
                 IF a.var
                 THEN Mul(Over(a.perf.data[v], Mul(m0[v], m0[v])), Mul(mult, mult))
                 ELSE Mul(Over(a.perf.data[v], m0[v]), mult)],
              "perfusion_calib")

\* the arguments of the calls of calib
CalibArgs ==
    { [perf |-> perf, calib |-> cal, method |-> method, var |-> var,
       pct |-> pct, gain |-> gain, alpha |-> alpha, multiplier |-> multiplier,
       tr |-> tr, t1t |-> t1t, tissref |-> tissref, ref_mask |-> ref_mask] :
        perf \in {NoImage} \cup FewImages("perfusion"),
        cal \in {NoImage} \cup FewImages("calib"),
        method \in {"voxelwise", "refregion", "random"},
        var \in BOOLEAN,
        pct \in {NotGiven, <<2, 3>>},
        gain \in {NotGiven, <<2, 1>>},
        alpha \in {NotGiven, <<1, 2>>},
        multiplier \in {NotGiven, <<3, 1>>},
        tr \in {NotGiven, <<3, 1>>},
        t1t \in {NotGiven, <<11, 10>>},
        tissref \in {None, "wm", "kryptonite"},
        ref_mask \in {Vox, {1}} }

calib ==
    /\ outcome = NoOutcome
    /\ \E a \in CalibArgs :
          /\ (a.method # "refregion") => (a.tissref = None /\ a.ref_mask = Vox)
          /\ LET e == CalibError(a)
             IN  /\ wsp' = IF e = None /\ ShortTrWarning(a)
                           THEN Log(wsp, "WARNING: TR given but tissue T1 not given, no correction for short TR")
                           ELSE wsp
                 /\ outcome' = [op |-> "calib",
                                status |-> IF e = None THEN "returned" ELSE "raised",
                                ret |-> IF e = None THEN Calibrated(a) ELSE NoImage,
                                err |-> e, args |-> a]
    /\ calls' = <<>>

CalibInit ==
    /\ wsp = EmptyWsp
    /\ calls = <<>>
    /\ outcome = NoOutcome

CalibNext == calib

SpecCalib == CalibInit /\ [][CalibNext]_vars

\* the errors the arguments a of calib call for
ErrorsCalledFor(a) ==
    (IF a.perf = NoImage \/ a.calib = NoImage THEN {"MissingInputError"} ELSE {})
    \cup (IF a.method \notin {"voxelwise", "refregion"} THEN {"InvalidMethodError"} ELSE {})
    \cup (IF a.method = "refregion" /\ a.tissref \notin {None, "csf", "wm", "gm"}
          THEN {"InvalidTissueTypeError"} ELSE {})

\* C16: calib called without a perfusion image or without a calibration image
\* raises MissingInputError, with a method other than voxelwise and refregion
\* InvalidMethodError, with an unknown reference tissue in reference-region
\* mode InvalidTissueTypeError (one of them when several apply), and returns
\* no image.
C16_InvalidInputsRaise ==
    (outcome.op = "calib" /\ ErrorsCalledFor(outcome.args) # {})
        => /\ outcome.status = "raised"
           /\ outcome.err \in ErrorsCalledFor(outcome.args)
           /\ outcome.ret = NoImage

\* C16 witness: reference-region mode on two images with the tissue
\* "kryptonite".
C16_Witness ==
    /\ outcome.op = "calib" /\ outcome.status = "raised"
    /\ outcome.args.perf # NoImage /\ outcome.args.calib # NoImage
    /\ outcome.args.method = "refregion" /\ outcome.args.tissref = "kryptonite"
    /\ outcome.err = "InvalidTissueTypeError"

\* the product of the fractions of the sequence s, in lowest terms
RECURSIVE Prod(_)
Prod(s) ==
    IF s = <<>> THEN <<1, 1>>
    ELSE LET r == Prod(Tail(s)) IN Frac(Head(s)[1] * r[1], Head(s)[2] * r[2])

\* two fractions of the same value
SameValue(a, b) == Frac(a[1], a[2]) = Frac(b[1], b[2])

\* a call of calib in voxelwise mode that returned
VoxelwiseDone ==
    /\ outcome.op = "calib" /\ outcome.status = "returned"
    /\ outcome.args.method = "voxelwise"

\* the arguments of the call with the defaults of the claims filled in
ArgPct == IF outcome.args.pct = NotGiven THEN <<9, 10>> ELSE outcome.args.pct

ArgGain == IF outcome.args.gain = NotGiven THEN <<1, 1>> ELSE outcome.args.gain

ArgAlpha == IF outcome.args.alpha = NotGiven THEN <<1, 1>> ELSE outcome.args.alpha

ArgMultiplier ==
    IF outcome.args.multiplier = NotGiven THEN <<1, 1>> ELSE outcome.args.multiplier

\* both TR and T1 were given
BothTrAndT1 == outcome.args.tr # NotGiven /\ outcome.args.t1t # NotGiven

\* the short-TR factor of the call: 1 - exp(-TR/T1) when both were given
ArgShortTr ==
    IF BothTrAndT1
    THEN OneMinusExpNeg(<<outcome.args.tr[1] * outcome.args.t1t[2],
                          outcome.args.tr[2] * outcome.args.t1t[1]>>)
    ELSE <<1, 1>>

C18_VarianceSquaresFactors ==
    (VoxelwiseDone /\ outcome.args.var)
        => \A v \in Vox :
              SameValue(Prod(<<outcome.ret.data[v],
                               outcome.args.calib.data[v], outcome.args.calib.data[v],
                               ArgGain, ArgGain, ArgAlpha, ArgAlpha>>),
                        Prod(<<ArgPct, ArgPct, ArgMultiplier, ArgMultiplier,
                               ArgShortTr, ArgShortTr, outcome.args.perf.data[v]>>))

\* C18 witness: a variance with the five factors given.
C18_Witness ==
    /\ VoxelwiseDone /\ outcome.args.var /\ BothTrAndT1
    /\ outcome.args.pct # NotGiven /\ outcome.args.gain # NotGiven
    /\ outcome.args.alpha # NotGiven /\ outcome.args.multiplier # NotGiven

\* C19: a voxelwise calibration of a mean applies the factor 1 - exp(-TR/T1)
\* when both TR and T1 are given and not otherwise; with TR given and T1 not,
\* the result is the one without the factor and a WARNING is in the log.
C19_ShortTrNeedsT1 ==
    (VoxelwiseDone /\ ~outcome.args.var)
        => /\ \A v \in Vox :
                SameValue(Prod(<<outcome.ret.data[v], outcome.args.calib.data[v],
                                 ArgGain, ArgAlpha>>),
                          Prod(<<ArgPct, ArgMultiplier, ArgShortTr,
                                 outcome.args.perf.data[v]>>))
           /\ (outcome.args.tr # NotGiven /\ outcome.args.t1t = NotGiven)
                => "WARNING: TR given but tissue T1 not given, no correction for short TR"
                      \in wsp.log

\* C19 witness: TR given, T1 not, and the warning in the log.
C19_Witness ==
    /\ VoxelwiseDone /\ ~outcome.args.var
    /\ outcome.args.tr # NotGiven /\ outcome.args.t1t = NotGiven
    /\ wsp.log # {}

\* The steps of a resampled image after its raw data, any TOPUP pass left out
Resampling(img) ==
    SelectSeq(SubSeq(img.data, 2, Len(img.data)), LAMBDA st : st.op # "applytopup")

\* img was resampled from an image of dims dimensions with the workspace's
\* combined warp, and multiplied by the workspace's Jacobian when there is one
ResampledWith(w, img, dims) ==
    LET d == Resampling(img)
    IN  /\ Len(d) >= 1
        /\ d[1].op = "applywarp"
        /\ d[1].warp = w.distcorr_warp
        /\ IF w.distcorr_jacobian # None
           THEN d = <<d[1], TimesJacobian(w.distcorr_jacobian, dims)>>
           ELSE d = <<d[1]>>

\* apply_corrections returned after resampling the images
ResampledAll ==
    /\ outcome.op = "apply_corrections"
    /\ outcome.status = "returned"
    /\ InSeq("applywarp", [i \in 1..Len(calls) |-> calls[i].fn])

\* C21: after apply_corrections has resampled the images, each of them is the
\* warped image times the Jacobian when there is a Jacobian (the Jacobian taken
\* over four dimensions for the ASL series) and the warped image alone when
\* there is none, and the ASL series, calib, cref and cblip all carry the same
\* combined warp and the same Jacobian, those of the workspace.
C21_JacobianWhenPresent ==
    ResampledAll
        => /\ ResampledWith(wsp, wsp.asl_data, 4)
           /\ wsp.calibration_calib # NoImage
                => /\ ResampledWith(wsp, wsp.calibration_calib_asl, 3)
                   /\ wsp.calibration_cref # NoImage
                        => ResampledWith(wsp, wsp.calibration_cref_asl, 3)
                   /\ wsp.calibration_cblip # NoImage
                        => ResampledWith(wsp, wsp.calibration_cblip_asl, 3)

\* C21 happens: all four images were resampled with a Jacobian
C21_Witness ==
    /\ ResampledAll
    /\ wsp.distcorr_jacobian # None
    /\ wsp.calibration_calib # NoImage
    /\ wsp.calibration_cref # NoImage
    /\ wsp.calibration_cblip # NoImage
    /\ Len(wsp.calibration_cblip_asl.data) >= 3

\* C21 happens without a Jacobian: motion correction only
C21_WitnessNoJacobian ==
    /\ ResampledAll
    /\ wsp.distcorr_jacobian = None
    /\ wsp.calibration_calib # NoImage

\* the positions in calls of the fits of the sub-workspace name
FitsOf(name) ==
    { i \in 1..Len(calls) : calls[i].fn = "fit.run" /\ calls[i].arg = name }

\* exactly one PVC fit was run, and its covariates were pwm and pgm
PvcFitWith(pwm, pgm) ==
    /\ Cardinality(FitsOf("basil_pvcorr")) = 1
    /\ \A i \in FitsOf("basil_pvcorr") : calls[i].options = [pwm |-> pwm, pgm |-> pgm]

BothUserMaps == wsp.pvwm # None /\ wsp.pvgm # None

\* C22: after run, when both pvwm and pvgm were supplied the PVC fit has run,
\* with or without pvcorr, and its covariates are the user's maps; when at
\* most one was supplied and neither pvcorr nor surf_pvcorr is set no PVC fit
\* has run; when pvcorr is set without both user maps the covariates are the
\* structural WM/GM maps in ASL space.
C22_PvMapsFromOneSource ==
    (outcome.op = "run" /\ outcome.status = "returned")
        => /\ BothUserMaps => PvcFitWith(wsp.pvwm, wsp.pvgm)
           /\ (~BothUserMaps /\ ~wsp.pvcorr /\ ~wsp.surf_pvcorr)
                => FitsOf("basil_pvcorr") = {}
           /\ (wsp.pvcorr /\ ~BothUserMaps)
                => PvcFitWith("struc_wm_pv_in_asl", "struc_gm_pv_in_asl")

\* C22 happens: both user maps without the pvcorr option, and the PVC fit ran
C22_Witness ==
    /\ outcome.op = "run"
    /\ outcome.status = "returned"
    /\ BothUserMaps
    /\ ~wsp.pvcorr
    /\ FitsOf("basil_pvcorr") # {}

\* C22 happens with the structural maps: pvcorr and only pvwm supplied
C22_WitnessStructural ==
    /\ outcome.op = "run"
    /\ outcome.status = "returned"
    /\ wsp.pvcorr
    /\ wsp.pvwm # None
    /\ wsp.pvgm = None
    /\ FitsOf("basil_pvcorr") # {}

\* the external functions called by the last operation, in order
CallFns == [i \in 1..Len(calls) |-> calls[i].fn]

\* the last apply_corrections entered the TOPUP pass and called applytopup
TopupPassRan == outcome.op = "apply_corrections" /\ InSeq("applytopup", CallFns)

\* the last step of the making of img is the TOPUP pass
ToppedUp(img) == img # NoImage /\ LastStep(img) = "applytopup"

\* img is what the TOPUP pass makes of the stored image pretopup
OverwrittenFrom(img, pretopup, index) ==
    ToppedUp(img) => img = TopupImage(pretopup, index)

\* C23: in apply_corrections every applytopup call comes after every
\* applywarp call and the combined warp holds nothing of TOPUP; an image the
\* TOPUP pass has overwritten is the TOPUP of its stored *_pretopup value;
\* after a call whose pass completed, asl.data_pretopup, calib_asl_pretopup
\* and cblip_asl_pretopup are the single-pass-resampled images; and the
\* temporary TOPUP input directory is gone after the call, returned or raised.
C23_TopupAfterResampling ==
    outcome.op = "apply_corrections"
        => /\ \A i, j \in 1..Len(calls) :
                (calls[i].fn = "applytopup" /\ calls[j].fn = "applywarp") => j < i
           /\ \A i \in 1..Len(calls) :
                calls[i].fn = "convertwarp" => calls[i].arg = "warps,jacobian"
           /\ \A i \in 1..Len(wsp.distcorr_warp) :
                wsp.distcorr_warp[i] \notin {"out_fieldcoef", "out_movpar", "iout", "fout"}
           /\ OverwrittenFrom(wsp.asl_data, wsp.asl_data_pretopup, 1)
           /\ OverwrittenFrom(wsp.calibration_calib_asl, wsp.calibration_calib_asl_pretopup, 1)
           /\ OverwrittenFrom(wsp.calibration_cblip_asl, wsp.calibration_cblip_asl_pretopup, 2)
           /\ (TopupPassRan /\ outcome.status = "returned")
                => /\ wsp.asl_data_pretopup
                        = Image(CorrectedImage(wsp, wsp.asldata, wsp.moco_mc_mats).data,
                                wsp.asldata.header)
                   /\ wsp.calibration_calib_asl_pretopup
                        = CorrectedImage(wsp, wsp.calibration_calib, Calib2AslMat(wsp))
                   /\ wsp.calibration_cblip_asl_pretopup
                        = CorrectedImage(wsp, wsp.calibration_cblip, Calib2AslMat(wsp))
                   /\ ToppedUp(wsp.asl_data)
                   /\ ToppedUp(wsp.calibration_calib_asl)
                   /\ ToppedUp(wsp.calibration_cblip_asl)
           /\ wsp.topup_input = FALSE

\* C23 happens: a TOPUP pass that completed after a resampling with a warp
C23_Witness ==
    /\ TopupPassRan
    /\ outcome.status = "returned"
    /\ wsp.distcorr_warp # NoMat
    /\ wsp.asl_data_pretopup # NoImage
    /\ wsp.asl_data # wsp.asl_data_pretopup

\* C23 happens with a pass that failed after its first overwrite
C23_WitnessFailedPass ==
    /\ TopupPassRan
    /\ outcome.status = "raised"
    /\ ToppedUp(wsp.calibration_calib_asl)
    /\ ~ToppedUp(wsp.asl_data)

\* some PVC is requested of the workspace w
PvcRequested(w) == w.pvcorr \/ w.surf_pvcorr \/ (w.pvwm # None /\ w.pvgm # None)

\* the sub-workspaces fitted with partial volume correction
PvcFits == {"basil_pvcorr", "basil_surf_pvcorr"}

C24_WitnessOtherMask ==
    /\ outcome.op = "run"
    /\ wsp.rois_mask_src = "pwi"
    /\ wsp.rois_mask = "mask_pwi"
    /\ FitsOf("basil_pvcorr") # {}

====
